---------------------------- MODULE Spec2Model ----------------------------
(***************************************************************************)
(* A model of sound_of_life.py (src/main.py): the Game-of-Life grid        *)
(* (class Grid), the voice registry that sonifies it (class SoundManager)  *)
(* and the window that drives both (class MainWindow).                     *)
(*                                                                         *)
(* Three specifications are defined over the same state:                   *)
(*   Spec        the application: the handlers of MainWindow, as wired in  *)
(*               init_ui, fired in any order by the user and the timer;    *)
(*   ApiSpec     the classes Grid and SoundManager called method by method *)
(*               by an arbitrary client (any arguments, any order);        *)
(*   EngineSpec  class Grid alone, started from every grid content and     *)
(*               every rule list of a bounded family.                      *)
(*                                                                         *)
(* A numpy bool array of shape (r, c) is a function                        *)
(* [0..r-1 -> [0..c-1 -> BOOLEAN]], indexed as in the source.  A pyo       *)
(* frequency is a float in the source; here it is the exact rational       *)
(* <<numerator, denominator>> in lowest terms (float rounding is not       *)
(* modelled).  An amplitude is kept as the slider's percent (0.5 is 50).   *)
(***************************************************************************)
EXTENDS Integers, Sequences, FiniteSets, TLC

VARIABLES
    rows,               \* Grid.rows
    cols,               \* Grid.cols
    grid,               \* Grid.grid, the bool array
    rules,              \* Grid.rules: [birth |-> list, survival |-> list]
    frequency_range,    \* SoundManager.frequency_range: <<min, max>>
    amplitude,          \* SoundManager.amplitude (percent)
    waveform,           \* SoundManager.waveform (a name)
    smooth_transitions, \* SoundManager.smooth_transitions
    oscillators,        \* SoundManager.oscillators: key -> oscillator
    envelopes,          \* SoundManager.envelopes: key -> Fader
    server,             \* the pyo Server of the manager: "running"/"stopped"
    previous_grid,      \* MainWindow.previous_grid
    closed,             \* the window was closed (closeEvent accepted)
    setterCalls,        \* how many times a sound setting was changed so far
    apiCalls,           \* how many calls the client of ApiSpec made to the manager
    reconciles,         \* how many of them were calls of update_sounds
    cmds,               \* the audio commands the last operation issued
    err,                \* the exception the last operation raised, or "none"
    lastOp              \* the last operation that called the manager (its
                        \* name first), <<"grid">> after one that did not

vars == <<rows, cols, grid, rules, frequency_range, amplitude, waveform,
          smooth_transitions, oscillators, envelopes, server, previous_grid,
          closed, setterCalls, apiCalls, reconciles, cmds, err, lastOp>>

gridVars == <<rows, cols, grid, rules>>
soundVars == <<frequency_range, amplitude, waveform, smooth_transitions,
               oscillators, envelopes, server>>

-----------------------------------------------------------------------------
(* Bounds of the model.                                                    *)

\* The window builds Grid(rows=20, cols=20); the model's window builds a
\* square grid of this side.
WindowSize == 2
\* The number of changes of a sound setting (frequency range, amplitude,
\* waveform, smooth transitions) in one run of Spec.
MaxSetterCalls == 2
\* The number of calls to the SoundManager in one run of ApiSpec, and how
\* many of them may be calls of update_sounds.
MaxApiCalls == 3
MaxReconciles == 1
\* The largest number of rows or columns a client of ApiSpec asks for.
MaxSize == 2
\* The largest number of rows or columns of a grid of EngineSpec.
EngineSize == 3
\* The largest number of rows or columns of a grid of MappingSpec.
MappingSize == 4

\* Rule lists: the five entries of rule_combo (change_rule) ...
ComboRules ==
    { [birth |-> <<3>>, survival |-> <<2, 3>>],
      [birth |-> <<3, 6>>, survival |-> <<2, 3>>],
      [birth |-> <<2>>, survival |-> <<>>],
      [birth |-> <<3, 6, 7, 8>>, survival |-> <<3, 4, 6, 7, 8>>],
      [birth |-> <<1, 3, 5, 7>>, survival |-> <<1, 3, 5, 7>>] }
\* ... and lists only apply_custom_rule or a preset can give: a 0, a value
\* above 8, a duplicate.
CustomRules ==
    { [birth |-> <<0>>, survival |-> <<2, 3>>],
      [birth |-> <<3, 9>>, survival |-> <<2, 3, 3, 12>>],
      [birth |-> <<1>>, survival |-> <<0, 1>>] }
RuleLists == ComboRules \cup CustomRules
\* The rule lists the window of Spec is given: Conway, Seeds and a custom one.
WindowRules ==
    { [birth |-> <<3>>, survival |-> <<2, 3>>],
      [birth |-> <<2>>, survival |-> <<>>],
      [birth |-> <<1>>, survival |-> <<0, 1>>] }

\* Values of the sliders and combo boxes that the model draws from.
FreqMaxima == {1000, 2000}          \* freq_slider: 100..2000, default 1000
Amplitudes == {50, 80}              \* amp_slider: 0..100, default 50
Waveforms == {"Sine", "Square"}     \* two of the four of waveform_combo

-----------------------------------------------------------------------------
(* Arrays.                                                                 *)

Max(a, b) == IF a >= b THEN a ELSE b
Min(a, b) == IF a <= b THEN a ELSE b

\* range(lo, hi)
Range(lo, hi) == lo .. (hi - 1)

\* arr.shape
NRows(arr) == Cardinality(DOMAIN arr)
NCols(arr) == Cardinality(DOMAIN arr[0])

\* np.zeros((r, c), dtype=bool)
Zeros(r, c) == [i \in Range(0, r) |-> [j \in Range(0, c) |-> FALSE]]

\* arr[i, j]: inside the shape (indices are never negative here)
InShape(arr, i, j) == i \in DOMAIN arr /\ j \in DOMAIN arr[i]

\* arr[i, j] = v on a copy
Put(arr, i, j, v) == [arr EXCEPT ![i][j] = v]

\* every bool array of shape (r, c)
Arrays(r, c) == [Range(0, r) -> [Range(0, c) -> BOOLEAN]]

\* the coordinates that are alive in an array
Alive(arr) == {<<i, j>> \in (DOMAIN arr) \X (DOMAIN arr[0]) : arr[i][j]}

\* x in list
InList(x, list) == \E k \in 1..Len(list) : list[k] = x

-----------------------------------------------------------------------------
(* class Grid                                                              *)

\* count_alive_neighbors without its (i != row or j != col) test: the cell
\* counts itself.
count_alive_neighbors_with_self(g, r, c, row, col) ==
    Cardinality({ <<i, j>> \in Range(Max(0, row - 1), Min(r, row + 2))
                               \X Range(Max(0, col - 1), Min(c, col + 2)) :
                  g[i][j] })

\* Grid.count_alive_neighbors(row, col) on an array g of r rows and c columns
count_alive_neighbors(g, r, c, row, col) ==
    Cardinality({ <<i, j>> \in Range(Max(0, row - 1), Min(r, row + 2))
                               \X Range(Max(0, col - 1), Min(c, col + 2)) :
                  (i # row \/ j # col) /\ g[i][j] })

\* update_grid's loop body with rule values taken modulo 9, so that a 9 in a
\* list fires on a count of 0 and a 12 on a count of 3.
update_cell_values_wrapped(cur, new, r, c, rl, row, col) ==
    LET neighbors == count_alive_neighbors(cur, r, c, row, col)
        fires(list) == \E k \in 1..Len(list) : list[k] % 9 = neighbors
    IN  IF cur[row][col]
        THEN IF ~fires(rl.survival)
             THEN Put(new, row, col, FALSE) ELSE new
        ELSE IF fires(rl.birth)
             THEN Put(new, row, col, TRUE) ELSE new

\* One pass of the loop body of update_grid for cell (row, col): the count is
\* taken on `cur` (self.grid), the write goes to `new` (new_grid).
update_cell(cur, new, r, c, rl, row, col) ==
    LET neighbors == count_alive_neighbors(cur, r, c, row, col)
    IN  IF cur[row][col]
        THEN IF ~InList(neighbors, rl.survival)
             THEN Put(new, row, col, FALSE) ELSE new
        ELSE IF InList(neighbors, rl.birth)
             THEN Put(new, row, col, TRUE) ELSE new

\* The loops of update_grid from the k-th cell in row-major order on.
RECURSIVE update_loop(_, _, _, _, _, _)
update_loop(cur, new, r, c, rl, k) ==
    IF k >= r * c THEN new
    ELSE update_loop(cur, update_cell(cur, new, r, c, rl, k \div c, k % c),
                     r, c, rl, k + 1)

\* update_grid writing into self.grid itself: each count sees the cells
\* already written in this pass.
RECURSIVE update_loop_in_place(_, _, _, _, _)
update_loop_in_place(new, r, c, rl, k) ==
    IF k >= r * c THEN new
    ELSE update_loop_in_place(update_cell(new, new, r, c, rl, k \div c, k % c),
                              r, c, rl, k + 1)
update_grid_in_place(g, r, c, rl) == update_loop_in_place(g, r, c, rl, 0)

\* Grid.update_grid: the new value of self.grid
update_grid(g, r, c, rl) == update_loop(g, g, r, c, rl, 0)

\* resize_grid that builds the new array and copies nothing into it.
resize_grid_cleared(g, r, c, new_rows, new_cols) == Zeros(new_rows, new_cols)

\* Grid.resize_grid(new_rows, new_cols): the new value of self.grid
resize_grid(g, r, c, new_rows, new_cols) ==
    LET min_rows == Min(r, new_rows)
        min_cols == Min(c, new_cols)
    IN  [i \in Range(0, new_rows) |-> [j \in Range(0, new_cols) |->
            IF i < min_rows /\ j < min_cols THEN g[i][j] ELSE FALSE]]

\* mousePressEvent testing only x < cols and y < rows: a negative index
\* counts from the end of the array, as numpy takes it.
mousePressEvent_no_lower_bound(g, r, c, x, y) ==
    IF x < c /\ y < r
    THEN Put(g, y % r, x % c, ~g[y % r][x % c])
    ELSE g

\* Grid.mousePressEvent at cell x (column), y (row): the new value of self.grid
mousePressEvent(g, r, c, x, y) ==
    IF 0 <= x /\ x < c /\ 0 <= y /\ y < r
    THEN Put(g, y, x, ~g[y][x])
    ELSE g

\* Grid.clear_grid: the new value of self.grid
clear_grid(r, c) == Zeros(r, c)

-----------------------------------------------------------------------------
(* class SoundManager                                                      *)
(*                                                                         *)
(* The methods are operators on `self`, a record of the manager's fields   *)
(* together with the rows and cols of the Grid it refers to (self.grid),   *)
(* the commands issued so far and the exception raised, if any.  An        *)
(* oscillator is [cls, freq, by_env, mul]: its pyo class, its frequency,   *)
(* whether its mul is the Fader of its key (by_env) or a number, and that  *)
(* number (for a Fader, the Fader's own mul).  A Fader is [mul].           *)
(* Commands are tuples: <<"osc.out", key, cls, freq>>, <<"osc.stop", key>>,*)
(* <<"osc.setMul", key, mul>>, <<"osc.freq", key, freq>>,                  *)
(* <<"env.play", key>>, <<"env.stop", key>>, <<"server.stop">>,            *)
(* <<"server.start">>.                                                     *)
(***************************************************************************)

RECURSIVE GCD(_, _)
GCD(a, b) == IF b = 0 THEN a ELSE GCD(b, a % b)

\* the rational n/d (d > 0, n >= 0) in lowest terms
Frac(n, d) == LET g == GCD(n, d) IN <<n \div g, d \div g>>

\* a <= b for rationals
FracLeq(a, b) == a[1] * b[2] <= b[1] * a[2]

\* the keys of a dict, in row-major order (a dict iterates in insertion
\* order; the order between different keys is not observed by any operator
\* below other than through the order of the commands)
RECURSIVE KeyList(_)
KeyList(S) ==
    IF S = {} THEN <<>>
    ELSE LET k == CHOOSE a \in S : \A b \in S :
                     a[1] < b[1] \/ (a[1] = b[1] /\ a[2] <= b[2])
         IN  <<k>> \o KeyList(S \ {k})

\* del d[key]
Del(d, key) == [k \in (DOMAIN d) \ {key} |-> d[k]]

\* d[key] = v
Set(d, key, v) == [k \in (DOMAIN d) \cup {key} |-> IF k = key THEN v ELSE d[k]]

\* calculate_frequency without the factor 0.5 on the row term.
calculate_frequency_row_unhalved(self, row, col) ==
    LET f0 == self.frequency_range[1]
        f1 == self.frequency_range[2]
        R == self.rows
        C == self.cols
    IN  Frac(R * C * f0 + (f1 - f0) * (col * R) + (f1 - f0) * (row * C), R * C)

\* SoundManager.calculate_frequency(row, col)
calculate_frequency(self, row, col) ==
    LET f0 == self.frequency_range[1]
        f1 == self.frequency_range[2]
        R == self.rows
        C == self.cols
    IN  Frac(2 * R * C * f0 + (f1 - f0) * (2 * col * R) + (f1 - f0) * (row * C),
             2 * R * C)

\* SoundManager.get_waveform_class(waveform_type)
get_waveform_class(waveform_type) ==
    CASE waveform_type = "Sine" -> "Sine"
      [] waveform_type = "Square" -> "Square"
      [] waveform_type = "Sawtooth" -> "Saw"
      [] waveform_type = "Triangle" -> "Tri"
      [] OTHER -> "Sine"

\* play_sound without its "already playing" test: a second oscillator is
\* created and takes the place of the first in the registry.
play_sound_unguarded(self, row, col) ==
    LET key == <<row, col>>
        freq == calculate_frequency(self, row, col)
        waveform_class == get_waveform_class(self.waveform)
    IN  [self EXCEPT
            !.envelopes = IF self.smooth_transitions
                          THEN Set(@, key, [mul |-> self.amplitude]) ELSE @,
            !.oscillators = Set(@, key, [cls |-> waveform_class, freq |-> freq,
                                        by_env |-> self.smooth_transitions,
                                        mul |-> self.amplitude]),
            !.cmds = @ \o << <<"osc.out", key, waveform_class, freq>>,
                             IF self.smooth_transitions THEN <<"env.play", key>>
                             ELSE <<"osc.setMul", key, self.amplitude>> >>]

\* SoundManager.play_sound(row, col)
play_sound(self, row, col) ==
    LET key == <<row, col>>
        freq == calculate_frequency(self, row, col)
        waveform_class == get_waveform_class(self.waveform)
    IN  IF key \in DOMAIN self.oscillators
        THEN self
        ELSE IF self.smooth_transitions
        THEN [self EXCEPT
                !.envelopes = Set(@, key, [mul |-> self.amplitude]),
                !.oscillators = Set(@, key, [cls |-> waveform_class, freq |-> freq,
                                            by_env |-> TRUE, mul |-> self.amplitude]),
                !.cmds = @ \o << <<"osc.out", key, waveform_class, freq>>,
                                 <<"env.play", key>> >>]
        ELSE [self EXCEPT
                !.oscillators = Set(@, key, [cls |-> waveform_class, freq |-> freq,
                                            by_env |-> FALSE, mul |-> self.amplitude]),
                !.cmds = @ \o << <<"osc.out", key, waveform_class, freq>>,
                                 <<"osc.setMul", key, self.amplitude>> >>]

\* stop_sound without its "key in self.oscillators" test: a key that is not
\* registered raises KeyError at self.oscillators[key].
stop_sound_unguarded(self, row, col) ==
    LET key == <<row, col>>
    IN  IF key \in DOMAIN self.oscillators
        THEN [self EXCEPT
                !.cmds = @ \o (IF self.smooth_transitions /\ key \in DOMAIN self.envelopes
                               THEN << <<"env.stop", key>> >> ELSE <<>>)
                           \o << <<"osc.stop", key>> >>,
                !.oscillators = Del(@, key),
                !.envelopes = IF key \in DOMAIN @ THEN Del(@, key) ELSE @]
        ELSE [self EXCEPT !.err = "KeyError"]

\* stop_sound that stops the oscillator and forgets to delete its entries.
stop_sound_keeps_key(self, row, col) ==
    LET key == <<row, col>>
    IN  IF key \in DOMAIN self.oscillators
        THEN [self EXCEPT !.cmds = @ \o << <<"osc.stop", key>> >>]
        ELSE self

\* SoundManager.stop_sound(row, col)
stop_sound(self, row, col) ==
    LET key == <<row, col>>
    IN  IF key \in DOMAIN self.oscillators
        THEN [self EXCEPT
                !.cmds = @ \o (IF self.smooth_transitions /\ key \in DOMAIN self.envelopes
                               THEN << <<"env.stop", key>> >> ELSE <<>>)
                           \o << <<"osc.stop", key>> >>,
                !.oscillators = Del(@, key),
                !.envelopes = IF key \in DOMAIN @ THEN Del(@, key) ELSE @]
        ELSE self

\* The loop body of update_sounds starting a voice for every live cell, born
\* in this generation or not.
update_sounds_cell_every_live(self, previous, current, row, col) ==
    IF ~InShape(previous, row, col) \/ ~InShape(current, row, col)
    THEN [self EXCEPT !.err = "IndexError"]
    ELSE IF current[row][col] THEN play_sound(self, row, col)
         ELSE IF previous[row][col] THEN stop_sound(self, row, col)
         ELSE self

\* The loop body of update_sounds for cell (row, col); an index outside an
\* array's shape raises IndexError.
update_sounds_cell(self, previous, current, row, col) ==
    IF ~InShape(previous, row, col) \/ ~InShape(current, row, col)
    THEN [self EXCEPT !.err = "IndexError"]
    ELSE LET was_alive == previous[row][col]
             is_alive == current[row][col]
         IN  IF ~was_alive /\ is_alive THEN play_sound(self, row, col)
             ELSE IF was_alive /\ ~is_alive THEN stop_sound(self, row, col)
             ELSE self

\* The loops of update_sounds from the k-th cell of self.grid on, in row-major
\* order; an exception ends them.
RECURSIVE update_sounds_loop(_, _, _, _)
update_sounds_loop(self, previous, current, k) ==
    IF k >= self.rows * self.cols \/ self.err # "none" THEN self
    ELSE update_sounds_loop(
             update_sounds_cell(self, previous, current, k \div self.cols, k % self.cols),
             previous, current, k + 1)

\* SoundManager.update_sounds(previous_grid, current_grid)
update_sounds(self, previous, current) ==
    update_sounds_loop(self, previous, current, 0)

\* The loop of update_all_frequencies over the keys ks.
RECURSIVE update_frequencies_loop(_, _)
update_frequencies_loop(self, ks) ==
    IF ks = <<>> THEN self
    ELSE LET key == Head(ks)
             freq == calculate_frequency(self, key[1], key[2])
         IN  update_frequencies_loop(
                 [self EXCEPT !.oscillators[key].freq = freq,
                              !.cmds = @ \o << <<"osc.freq", key, freq>> >>],
                 Tail(ks))

\* update_all_frequencies that pushes nothing.
update_all_frequencies_skipped(self) == self

\* SoundManager.update_all_frequencies()
update_all_frequencies(self) ==
    update_frequencies_loop(self, KeyList(DOMAIN self.oscillators))

\* set_frequency_range that stores the range and does not call
\* update_all_frequencies.
set_frequency_range_store_only(self, min_freq, max_freq) ==
    [self EXCEPT !.frequency_range = <<min_freq, max_freq>>]

\* SoundManager.set_frequency_range(min_freq, max_freq)
set_frequency_range(self, min_freq, max_freq) ==
    update_all_frequencies([self EXCEPT !.frequency_range = <<min_freq, max_freq>>])

\* The loop of set_amplitude over the keys ks: osc.setMul(self.amplitude).
RECURSIVE set_amplitude_loop(_, _)
set_amplitude_loop(self, ks) ==
    IF ks = <<>> THEN self
    ELSE LET key == Head(ks)
         IN  set_amplitude_loop(
                 [self EXCEPT !.oscillators[key].by_env = FALSE,
                              !.oscillators[key].mul = self.amplitude,
                              !.cmds = @ \o << <<"osc.setMul", key, self.amplitude>> >>],
                 Tail(ks))

\* SoundManager.set_amplitude(amplitude)
set_amplitude(self, a) ==
    set_amplitude_loop([self EXCEPT !.amplitude = a], KeyList(DOMAIN self.oscillators))

\* The loop of update_all_waveforms over active_keys.
RECURSIVE update_waveforms_loop(_, _)
update_waveforms_loop(self, ks) ==
    IF ks = <<>> THEN self
    ELSE LET key == Head(ks)
         IN  update_waveforms_loop(
                 play_sound(stop_sound(self, key[1], key[2]), key[1], key[2]),
                 Tail(ks))

\* update_all_waveforms that stops every oscillator and restarts none.
RECURSIVE stop_all_loop(_, _)
stop_all_loop(self, ks) ==
    IF ks = <<>> THEN self
    ELSE stop_all_loop(stop_sound(self, Head(ks)[1], Head(ks)[2]), Tail(ks))
update_all_waveforms_stop_only(self) ==
    stop_all_loop(self, KeyList(DOMAIN self.oscillators))

\* SoundManager.update_all_waveforms()
update_all_waveforms(self) ==
    update_waveforms_loop(self, KeyList(DOMAIN self.oscillators))

\* SoundManager.set_waveform(waveform_type)
set_waveform(self, waveform_type) ==
    update_all_waveforms([self EXCEPT !.waveform = waveform_type])

\* SoundManager.set_smooth_transitions(smooth)
set_smooth_transitions(self, smooth) ==
    [self EXCEPT !.smooth_transitions = smooth]

\* shutdown that also empties the registry and the envelope map.
shutdown_clears_registry(self) ==
    [self EXCEPT !.server = "stopped", !.cmds = @ \o << <<"server.stop">> >>,
                 !.oscillators = <<>>, !.envelopes = <<>>]

\* shutdown that also stops every oscillator, and keeps the registry.
shutdown_stops_voices(self) ==
    [self EXCEPT !.server = "stopped",
                 !.cmds = @ \o [i \in 1..Cardinality(DOMAIN self.oscillators) |->
                                   <<"osc.stop", KeyList(DOMAIN self.oscillators)[i]>>]
                            \o << <<"server.stop">> >>]

\* SoundManager.shutdown()
shutdown(self) ==
    [self EXCEPT !.server = "stopped", !.cmds = @ \o << <<"server.stop">> >>]

\* SoundManager.__init__(grid), continuing the command log of `self`
NewSoundManager(self) ==
    [self EXCEPT !.server = "running",
                 !.frequency_range = <<200, 1000>>,
                 !.amplitude = 50,
                 !.waveform = "Sine",
                 !.smooth_transitions = TRUE,
                 !.oscillators = <<>>,
                 !.envelopes = <<>>,
                 !.cmds = @ \o << <<"server.start">> >>]

\* The manager as the current state has it, about to run an operation: no
\* command issued yet, no exception raised.
Self ==
    [rows |-> rows, cols |-> cols,
     frequency_range |-> frequency_range, amplitude |-> amplitude,
     waveform |-> waveform, smooth_transitions |-> smooth_transitions,
     oscillators |-> oscillators, envelopes |-> envelopes, server |-> server,
     cmds |-> <<>>, err |-> "none"]

\* The state takes the manager's fields, commands and exception from `s`.
Becomes(s) ==
    /\ frequency_range' = s.frequency_range
    /\ amplitude' = s.amplitude
    /\ waveform' = s.waveform
    /\ smooth_transitions' = s.smooth_transitions
    /\ oscillators' = s.oscillators
    /\ envelopes' = s.envelopes
    /\ server' = s.server
    /\ cmds' = s.cmds
    /\ err' = s.err

-----------------------------------------------------------------------------
(* class MainWindow: the application.                                      *)
(*                                                                         *)
(* One action per handler that init_ui connects to a widget or to the      *)
(* timer, and closeEvent.  The timer's update_simulation only calls        *)
(* next_generation, which the "Next Generation" button calls at any time,  *)
(* so both are the action NextGeneration and the timer's state             *)
(* (play_simulation, pause_simulation, simulation_running) is left out, as *)
(* are the handlers that touch neither the grid content, the rules nor the *)
(* manager (colours, gridlines, sound mode, speed, save preset, export).   *)
(* An exception that leaves a handler is recorded in err; the run may end  *)
(* there (PyQt aborts on it by default) or go on, and every prefix of a    *)
(* behaviour is a behaviour.                                               *)
(***************************************************************************)

Conway == [birth |-> <<3>>, survival |-> <<2, 3>>]

\* MainWindow.__init__
Init ==
    /\ rows = WindowSize
    /\ cols = WindowSize
    /\ grid = Zeros(WindowSize, WindowSize)
    /\ rules = Conway
    /\ frequency_range = <<200, 1000>>
    /\ amplitude = 50
    /\ waveform = "Sine"
    /\ smooth_transitions = TRUE
    /\ oscillators = <<>>
    /\ envelopes = <<>>
    /\ server = "running"
    /\ previous_grid = Zeros(WindowSize, WindowSize)
    /\ closed = FALSE
    /\ setterCalls = 0
    /\ apiCalls = 0
    /\ reconciles = 0
    /\ cmds = <<>>
    /\ err = "none"
    /\ lastOp = <<"__init__">>

\* An operation on the grid alone: no command, no exception.
Quiet == cmds' = <<>> /\ err' = "none" /\ lastOp' = <<"grid">>

\* Grid.mousePressEvent, a click on the cell of column x and row y
MousePress(x, y) ==
    /\ ~closed
    /\ grid' = mousePressEvent(grid, rows, cols, x, y)
    /\ Quiet
    /\ UNCHANGED <<rows, cols, rules, soundVars, previous_grid, closed, setterCalls, apiCalls, reconciles>>

\* MainWindow.stop_simulation; `dropped` is the manager that the handler
\* replaces, as oscillators.clear() and shutdown() left it, and lastOp keeps
\* the keys of its registry and of its envelope map
StopSimulation ==
    LET dropped == shutdown([Self EXCEPT !.oscillators = <<>>])
    IN  /\ ~closed
        /\ grid' = clear_grid(rows, cols)
        /\ Becomes(NewSoundManager(dropped))
        /\ previous_grid' = clear_grid(rows, cols)
        /\ lastOp' = <<"stop_simulation", DOMAIN dropped.oscillators,
                       DOMAIN dropped.envelopes>>
        /\ UNCHANGED <<rows, cols, rules, closed, setterCalls, apiCalls, reconciles>>

\* MainWindow.next_generation (the button, or the timer's update_simulation)
NextGeneration ==
    LET new_grid == update_grid(grid, rows, cols, rules)
        s == update_sounds(Self, previous_grid, new_grid)
    IN  /\ ~closed
        /\ grid' = new_grid
        /\ Becomes(s)
        /\ previous_grid' = IF s.err = "none" THEN new_grid ELSE previous_grid
        /\ lastOp' = <<"next_generation">>
        /\ UNCHANGED <<rows, cols, rules, closed, setterCalls, apiCalls, reconciles>>

\* MainWindow.change_rule (an entry of the combo box other than "Custom
\* Rules"), and apply_custom_rule with a text that parses: Grid.set_rules
ChangeRule(rl) ==
    /\ ~closed
    /\ rules' = rl
    /\ Quiet
    /\ UNCHANGED <<rows, cols, grid, soundVars, previous_grid, closed, setterCalls, apiCalls, reconciles>>

\* change_grid_size whose call of resize_grid takes effect (the size here is
\* one less than the window's), with nothing done about the voices.
ChangeGridSizeResizing ==
    /\ ~closed
    /\ grid' = resize_grid(grid, rows, cols, WindowSize - 1, WindowSize - 1)
    /\ rows' = WindowSize - 1
    /\ cols' = WindowSize - 1
    /\ cmds' = <<>>
    /\ err' = "none"
    /\ lastOp' = <<"change_grid_size">>
    /\ UNCHANGED <<rules, soundVars, previous_grid, closed, setterCalls, apiCalls, reconciles>>

\* MainWindow.change_grid_size: resize_grid(rows=size, cols=size) names
\* parameters that Grid.resize_grid(self, new_rows, new_cols) does not have,
\* so the call raises TypeError before the method runs.
ChangeGridSize ==
    /\ ~closed
    /\ cmds' = <<>>
    /\ err' = "TypeError"
    /\ lastOp' = <<"change_grid_size">>
    /\ UNCHANGED <<gridVars, soundVars, previous_grid, closed, setterCalls, apiCalls, reconciles>>

\* MainWindow.change_frequency_range
ChangeFrequencyRange(freq) ==
    /\ ~closed
    /\ setterCalls < MaxSetterCalls
    /\ Becomes(set_frequency_range(Self, 200, freq))
    /\ lastOp' = <<"set_frequency_range", 200, freq>>
    /\ setterCalls' = setterCalls + 1
    /\ UNCHANGED <<gridVars, previous_grid, closed, apiCalls, reconciles>>

\* MainWindow.change_amplitude
ChangeAmplitude(amp) ==
    /\ ~closed
    /\ setterCalls < MaxSetterCalls
    /\ Becomes(set_amplitude(Self, amp))
    /\ lastOp' = <<"set_amplitude">>
    /\ setterCalls' = setterCalls + 1
    /\ UNCHANGED <<gridVars, previous_grid, closed, apiCalls, reconciles>>

\* MainWindow.change_waveform
ChangeWaveform(w) ==
    /\ ~closed
    /\ setterCalls < MaxSetterCalls
    /\ Becomes(set_waveform(Self, w))
    /\ lastOp' = <<"set_waveform">>
    /\ setterCalls' = setterCalls + 1
    /\ UNCHANGED <<gridVars, previous_grid, closed, apiCalls, reconciles>>

\* MainWindow.toggle_transitions
ToggleTransitions(smooth) ==
    /\ ~closed
    /\ setterCalls < MaxSetterCalls
    /\ Becomes(set_smooth_transitions(Self, smooth))
    /\ lastOp' = <<"set_smooth_transitions">>
    /\ setterCalls' = setterCalls + 1
    /\ UNCHANGED <<gridVars, previous_grid, closed, apiCalls, reconciles>>

\* MainWindow.load_preset of a file whose rules are rl: set_rules runs, then
\* resize_grid(rows=..., cols=...) raises TypeError (as in change_grid_size),
\* which the handler's except clause turns into a warning box; the sound
\* settings of the preset, applied after the resize, are never reached.
LoadPreset(rl) ==
    /\ ~closed
    /\ rules' = rl
    /\ cmds' = <<>>
    /\ err' = "none"
    /\ lastOp' = <<"load_preset">>
    /\ UNCHANGED <<rows, cols, grid, soundVars, previous_grid, closed, setterCalls, apiCalls, reconciles>>

\* MainWindow.closeEvent
CloseEvent ==
    /\ ~closed
    /\ Becomes(shutdown(Self))
    /\ closed' = TRUE
    /\ lastOp' = <<"closeEvent">>
    /\ UNCHANGED <<gridVars, previous_grid, setterCalls, apiCalls, reconciles>>

Next ==
    \/ \E x \in Range(0, cols), y \in Range(0, rows) : MousePress(x, y)
    \/ StopSimulation
    \/ NextGeneration
    \/ \E rl \in WindowRules : ChangeRule(rl)
    \/ ChangeGridSize
    \/ \E freq \in FreqMaxima : ChangeFrequencyRange(freq)
    \/ \E amp \in Amplitudes : ChangeAmplitude(amp)
    \/ \E w \in Waveforms : ChangeWaveform(w)
    \/ \E smooth \in BOOLEAN : ToggleTransitions(smooth)
    \/ \E rl \in WindowRules : LoadPreset(rl)
    \/ CloseEvent

Spec == Init /\ [][Next]_vars

-----------------------------------------------------------------------------
(* ApiSpec: a client of Grid and SoundManager.                             *)
(*                                                                         *)
(* The client builds a Grid of any shape up to MaxSize and a SoundManager  *)
(* on it, and then calls their methods one at a time with any arguments:   *)
(* this reaches what the window never does (a resize that takes effect,    *)
(* play_sound on a registered key, stop_sound on a missing one,            *)
(* update_sounds on arrays of another shape, shutdown twice).  The sound   *)
(* settings keep their defaults here; Spec changes them.                   *)
(***************************************************************************)

Sizes == 1..MaxSize

\* every bool array of every shape up to MaxSize
AllArrays == UNION { Arrays(r, c) : r \in Sizes, c \in Sizes }

ApiInit ==
    /\ rows \in Sizes
    /\ cols \in Sizes
    /\ grid = Zeros(rows, cols)
    /\ rules = Conway
    /\ frequency_range = <<200, 1000>>
    /\ amplitude = 50
    /\ waveform = "Sine"
    /\ smooth_transitions = TRUE
    /\ oscillators = <<>>
    /\ envelopes = <<>>
    /\ server = "running"
    /\ previous_grid = Zeros(rows, cols)
    /\ closed = FALSE
    /\ setterCalls = 0
    /\ apiCalls = 0
    /\ reconciles = 0
    /\ cmds = <<>>
    /\ err = "none"
    /\ lastOp = <<"__init__">>

apiFrame == <<rules, previous_grid, closed, setterCalls>>

\* grid.mousePressEvent(event)
ApiMousePress(x, y) ==
    /\ apiCalls < MaxApiCalls
    /\ grid' = mousePressEvent(grid, rows, cols, x, y)
    /\ Quiet
    /\ UNCHANGED <<rows, cols, soundVars, apiFrame, apiCalls, reconciles>>

\* grid.resize_grid(new_rows, new_cols)
ApiResizeGrid(new_rows, new_cols) ==
    /\ apiCalls < MaxApiCalls
    /\ grid' = resize_grid(grid, rows, cols, new_rows, new_cols)
    /\ rows' = new_rows
    /\ cols' = new_cols
    /\ Quiet
    /\ UNCHANGED <<soundVars, apiFrame, apiCalls, reconciles>>

\* grid.update_grid()
ApiUpdateGrid ==
    /\ apiCalls < MaxApiCalls
    /\ grid' = update_grid(grid, rows, cols, rules)
    /\ Quiet
    /\ UNCHANGED <<rows, cols, soundVars, apiFrame, apiCalls, reconciles>>

\* clear_grid that also empties the registry, as stop_simulation does after
\* it.
ApiClearGridAndRegistry ==
    /\ apiCalls < MaxApiCalls
    /\ grid' = clear_grid(rows, cols)
    /\ oscillators' = <<>>
    /\ Quiet
    /\ UNCHANGED <<rows, cols, frequency_range, amplitude, waveform,
                   smooth_transitions, envelopes, server, apiFrame, apiCalls,
                   reconciles>>

\* grid.clear_grid()
ApiClearGrid ==
    /\ apiCalls < MaxApiCalls
    /\ grid' = clear_grid(rows, cols)
    /\ Quiet
    /\ UNCHANGED <<rows, cols, soundVars, apiFrame, apiCalls, reconciles>>

\* grid.set_rules(birth, survival)
ApiSetRules(rl) ==
    /\ apiCalls < MaxApiCalls
    /\ rules' = rl
    /\ Quiet
    /\ UNCHANGED <<rows, cols, grid, soundVars, previous_grid, closed, setterCalls,
                   apiCalls, reconciles>>

\* sound_manager.play_sound(row, col)
ApiPlaySound(row, col) ==
    /\ apiCalls < MaxApiCalls
    /\ Becomes(play_sound(Self, row, col))
    /\ lastOp' = <<"play_sound">>
    /\ apiCalls' = apiCalls + 1
    /\ UNCHANGED <<gridVars, apiFrame, reconciles>>

\* sound_manager.stop_sound(row, col)
ApiStopSound(row, col) ==
    /\ apiCalls < MaxApiCalls
    /\ Becomes(stop_sound(Self, row, col))
    /\ lastOp' = <<"stop_sound">>
    /\ apiCalls' = apiCalls + 1
    /\ UNCHANGED <<gridVars, apiFrame, reconciles>>

\* sound_manager.update_sounds(previous, current); lastOp keeps the shapes of
\* the two arrays and whether they are the same array
ApiUpdateSounds(previous, current) ==
    /\ apiCalls < MaxApiCalls
    /\ reconciles < MaxReconciles
    /\ Becomes(update_sounds(Self, previous, current))
    /\ lastOp' = <<"update_sounds", <<NRows(previous), NCols(previous)>>,
                   <<NRows(current), NCols(current)>>, previous = current>>
    /\ apiCalls' = apiCalls + 1
    /\ reconciles' = reconciles + 1
    /\ UNCHANGED <<gridVars, apiFrame>>

\* sound_manager.shutdown(); lastOp keeps whether it is the first shutdown in
\* a row (1) or a later one (2)
ApiShutdown ==
    /\ apiCalls < MaxApiCalls
    /\ Becomes(shutdown(Self))
    /\ lastOp' = <<"shutdown", IF lastOp[1] = "shutdown" THEN 2 ELSE 1>>
    /\ apiCalls' = apiCalls + 1
    /\ UNCHANGED <<gridVars, apiFrame, reconciles>>

ApiNext ==
    \/ \E x \in Range(0, cols), y \in Range(0, rows) : ApiMousePress(x, y)
    \/ \E r \in Sizes, c \in Sizes : ApiResizeGrid(r, c)
    \/ ApiUpdateGrid
    \/ ApiClearGrid
    \/ \E rl \in {Conway, [birth |-> <<2>>, survival |-> <<>>]} : ApiSetRules(rl)
    \/ \E row \in Range(0, MaxSize), col \in Range(0, MaxSize) : ApiPlaySound(row, col)
    \/ \E row \in Range(0, MaxSize), col \in Range(0, MaxSize) : ApiStopSound(row, col)
    \/ \E previous \in AllArrays : ApiUpdateSounds(previous, grid)
    \/ ApiUpdateSounds(grid, grid)
    \/ ApiShutdown

ApiSpec == ApiInit /\ [][ApiNext]_vars

-----------------------------------------------------------------------------
(* EngineSpec: class Grid alone.                                           *)
(*                                                                         *)
(* A Grid of any shape up to EngineSize, any content and any rule list of  *)
(* RuleLists (every content is reached by clicks, every list by            *)
(* set_rules), and then its methods, one call at a time.  Before each call *)
(* the caller copies the array into previous_grid, as MainWindow does with *)
(* np.copy(self.grid_widget.grid), so that a state shows the array before  *)
(* and after the last call.  No SoundManager is built: its variables keep  *)
(* their initial values.                                                   *)
(***************************************************************************)

EngineSizes == 1..EngineSize

EngineInit ==
    /\ rows \in EngineSizes
    /\ cols \in EngineSizes
    /\ grid \in Arrays(rows, cols)
    /\ rules \in RuleLists
    /\ frequency_range = <<200, 1000>>
    /\ amplitude = 50
    /\ waveform = "Sine"
    /\ smooth_transitions = TRUE
    /\ oscillators = <<>>
    /\ envelopes = <<>>
    /\ server = "running"
    /\ previous_grid = grid
    /\ closed = FALSE
    /\ setterCalls = 0
    /\ apiCalls = 0
    /\ reconciles = 0
    /\ cmds = <<>>
    /\ err = "none"
    /\ lastOp = <<"__init__">>

engineFrame == <<soundVars, closed, setterCalls, apiCalls, reconciles, cmds, err>>

\* grid.update_grid()
EngineUpdateGrid ==
    /\ previous_grid' = grid
    /\ grid' = update_grid(grid, rows, cols, rules)
    /\ lastOp' = <<"update_grid">>
    /\ UNCHANGED <<rows, cols, rules, engineFrame>>

\* grid.mousePressEvent(event) at column x and row y, also outside the grid
EngineMousePress(x, y) ==
    /\ previous_grid' = grid
    /\ grid' = mousePressEvent(grid, rows, cols, x, y)
    /\ lastOp' = <<"mousePressEvent", x, y>>
    /\ UNCHANGED <<rows, cols, rules, engineFrame>>

\* grid.resize_grid(new_rows, new_cols)
EngineResizeGrid(new_rows, new_cols) ==
    /\ previous_grid' = grid
    /\ grid' = resize_grid(grid, rows, cols, new_rows, new_cols)
    /\ rows' = new_rows
    /\ cols' = new_cols
    /\ lastOp' = <<"resize_grid", new_rows, new_cols>>
    /\ UNCHANGED <<rules, engineFrame>>

\* grid.set_rules(birth, survival)
EngineSetRules(rl) ==
    /\ previous_grid' = grid
    /\ rules' = rl
    /\ lastOp' = <<"set_rules">>
    /\ UNCHANGED <<rows, cols, grid, engineFrame>>

\* grid.clear_grid()
EngineClearGrid ==
    /\ previous_grid' = grid
    /\ grid' = clear_grid(rows, cols)
    /\ lastOp' = <<"clear_grid">>
    /\ UNCHANGED <<rows, cols, rules, engineFrame>>

EngineNext ==
    \/ EngineUpdateGrid
    \/ \E x \in Range(-1, cols + 1), y \in Range(-1, rows + 1) : EngineMousePress(x, y)
    \/ \E r \in EngineSizes, c \in EngineSizes : EngineResizeGrid(r, c)
    \/ \E rl \in RuleLists : EngineSetRules(rl)
    \/ EngineClearGrid

EngineSpec == EngineInit /\ [][EngineNext]_vars

-----------------------------------------------------------------------------
(* MappingSpec: a SoundManager on a larger grid.                           *)
(*                                                                         *)
(* A Grid of any shape up to MappingSize, left all dead, and a             *)
(* SoundManager on it, whose client starts voices for cells of the grid    *)
(* and changes the frequency range: the cells far from the origin, which   *)
(* the small grids of Spec and ApiSpec do not have, get their frequencies  *)
(* here.                                                                   *)
(***************************************************************************)

MappingSizes == 1..MappingSize

MappingInit ==
    /\ rows \in MappingSizes
    /\ cols \in MappingSizes
    /\ grid = Zeros(rows, cols)
    /\ rules = Conway
    /\ frequency_range = <<200, 1000>>
    /\ amplitude = 50
    /\ waveform = "Sine"
    /\ smooth_transitions = TRUE
    /\ oscillators = <<>>
    /\ envelopes = <<>>
    /\ server = "running"
    /\ previous_grid = Zeros(rows, cols)
    /\ closed = FALSE
    /\ setterCalls = 0
    /\ apiCalls = 0
    /\ reconciles = 0
    /\ cmds = <<>>
    /\ err = "none"
    /\ lastOp = <<"__init__">>

\* sound_manager.play_sound(row, col) for a cell of the grid
MappingPlaySound(row, col) ==
    /\ apiCalls < MaxApiCalls
    /\ Becomes(play_sound(Self, row, col))
    /\ lastOp' = <<"play_sound">>
    /\ apiCalls' = apiCalls + 1
    /\ UNCHANGED <<gridVars, apiFrame, reconciles>>

\* sound_manager.set_frequency_range(200, freq), as change_frequency_range
\* calls it
MappingSetFrequencyRange(freq) ==
    /\ setterCalls < MaxSetterCalls
    /\ Becomes(set_frequency_range(Self, 200, freq))
    /\ lastOp' = <<"set_frequency_range", 200, freq>>
    /\ setterCalls' = setterCalls + 1
    /\ UNCHANGED <<gridVars, previous_grid, closed, apiCalls, reconciles>>

MappingNext ==
    \/ \E row \in Range(0, rows), col \in Range(0, cols) : MappingPlaySound(row, col)
    \/ \E freq \in FreqMaxima : MappingSetFrequencyRange(freq)

MappingSpec == MappingInit /\ [][MappingNext]_vars

-----------------------------------------------------------------------------
(* Properties.                                                             *)

\* the positions of the commands `op` in a command log, and of those for `key`
Positions(log, op) == {i \in 1..Len(log) : log[i][1] = op}
PositionsFor(log, op, key) == {i \in Positions(log, op) : log[i][2] = key}

\* the commands that start or stop a voice
StartsAndStops(log) == Positions(log, "osc.out") \cup Positions(log, "osc.stop")

\* C1. Registry invariant: right after a next_generation whose reconcile
\* call completed (in the window every call has arrays of the grid's shape),
\* the keys of the registry are exactly the coordinates alive in the grid.
C1_RegistryIsLiveSet ==
    (lastOp = <<"next_generation">> /\ err = "none")
        => DOMAIN oscillators = Alive(grid)

\* C1 witness: a reconcile that started a voice and stopped another.
C1_Witness ==
    /\ lastOp = <<"next_generation">>
    /\ Positions(cmds, "osc.out") # {}
    /\ Positions(cmds, "osc.stop") # {}
    /\ Cardinality(DOMAIN oscillators) >= 2

\* The synchronous step as the rule states it: the Moore neighbours of a
\* cell inside an r x c grid, counted on the array `before`.
MooreNeighbours(r, c, i, j) ==
    { q \in Range(0, r) \X Range(0, c) :
        /\ q # <<i, j>>
        /\ q[1] - i \in {-1, 0, 1}
        /\ q[2] - j \in {-1, 0, 1} }
AliveAround(before, r, c, i, j) ==
    Cardinality({ q \in MooreNeighbours(r, c, i, j) : before[q[1]][q[2]] })
SynchronousStep(before, r, c, rl) ==
    [i \in Range(0, r) |-> [j \in Range(0, c) |->
        LET n == AliveAround(before, r, c, i, j)
        IN  IF before[i][j]
            THEN (IF ~InList(n, rl.survival) THEN FALSE ELSE before[i][j])
            ELSE (IF InList(n, rl.birth) THEN TRUE ELSE before[i][j])]]

\* C2. update_grid is synchronous: the array after the call is the
\* synchronous step of the array before it, every count taken on the array
\* as it was when the call began (Moore neighbours inside the grid, no
\* wrap-around).
C2_StepIsSynchronous ==
    lastOp = <<"update_grid">>
        => grid = SynchronousStep(previous_grid, rows, cols, rules)

\* C2 witness: a step on a 3 x 3 grid in which a cell died and a later cell
\* (in row-major order) next to it was born.
C2_Witness ==
    /\ lastOp = <<"update_grid">>
    /\ rows = 3 /\ cols = 3
    /\ \E p \in Alive(previous_grid) \ Alive(grid) :
       \E q \in Alive(grid) \ Alive(previous_grid) :
            /\ q \in MooreNeighbours(rows, cols, p[1], p[2])
            /\ (p[1] < q[1] \/ (p[1] = q[1] /\ p[2] < q[2]))

\* C3. update_sounds called with a previous array and a current array of
\* different shapes raises an error.
C3_MismatchFailsLoudly ==
    (lastOp[1] = "update_sounds" /\ lastOp[2] # lastOp[3]) => err # "none"

\* C4. Resize discipline: a reconcile that is the window's next operation
\* after a handler that calls resize_grid (change_grid_size, load_preset)
\* starts from an empty registry, the voices registered before the call
\* having been torn down in between.
C4_TornDownBeforeNextReconcile ==
    [][(lastOp[1] \in {"change_grid_size", "load_preset"}
        /\ lastOp'[1] = "next_generation") => oscillators = <<>>]_vars

C7_WaveformRestartsEveryVoice ==
    [][lastOp'[1] = "set_waveform"
         => /\ Cardinality(Positions(cmds', "osc.stop")) = Cardinality(DOMAIN oscillators)
            /\ Cardinality(Positions(cmds', "osc.out")) = Cardinality(DOMAIN oscillators)
            /\ \A key \in DOMAIN oscillators :
                 /\ Cardinality(PositionsFor(cmds', "osc.stop", key)) = 1
                 /\ Cardinality(PositionsFor(cmds', "osc.out", key)) = 1
                 /\ \A i \in PositionsFor(cmds', "osc.stop", key) :
                    \A j \in PositionsFor(cmds', "osc.out", key) :
                        i < j /\ cmds'[j][4] = oscillators[key].freq
            /\ DOMAIN oscillators' = DOMAIN oscillators
            /\ \A key \in DOMAIN oscillators :
                 oscillators'[key].freq = oscillators[key].freq]_vars

\* C7 witness: the waveform was changed to Square with three voices sounding.
C7_Witness ==
    /\ lastOp[1] = "set_waveform"
    /\ Cardinality(DOMAIN oscillators) >= 3
    /\ Cardinality(Positions(cmds, "osc.stop")) >= 3
    /\ \A key \in DOMAIN oscillators : oscillators[key].cls = "Square"

\* The frequency mapping as the formula states it,
\*   freq = fmin + (fmax - fmin) * col/cols + 0.5 * (fmax - fmin) * row/rows,
\* both sides multiplied by 2 * rows * cols; freq is the rational f[1]/f[2].
IsMappedFrequency(f, range, r, c, row, col) ==
    f[1] * (2 * r * c)
        = f[2] * (2 * r * c * range[1]
                  + 2 * r * col * (range[2] - range[1])
                  + c * row * (range[2] - range[1]))

\* C8. set_frequency_range(min, max) stores the range, sets the frequency of
\* every registered voice to the mapping of its key under the new range,
\* starts and stops nothing and keeps the keys of the registry.
C8_RangePushedToEveryVoice ==
    [][lastOp'[1] = "set_frequency_range"
         => /\ frequency_range' = <<lastOp'[2], lastOp'[3]>>
            /\ DOMAIN oscillators' = DOMAIN oscillators
            /\ StartsAndStops(cmds') = {}
            /\ \A key \in DOMAIN oscillators :
                 /\ IsMappedFrequency(oscillators'[key].freq, frequency_range',
                                      rows, cols, key[1], key[2])
                 /\ \E i \in PositionsFor(cmds', "osc.freq", key) :
                        cmds'[i][3] = oscillators'[key].freq]_vars

\* C8 witness: the range was changed to (200, 2000) with a voice sounding,
\* whose frequency is now above the old maximum.
C8_Witness ==
    /\ lastOp = <<"set_frequency_range", 200, 2000>>
    /\ \E key \in DOMAIN oscillators :
            oscillators[key].freq[1] > 1000 * oscillators[key].freq[2]

\* C9. update_sounds(G, G) starts nothing, stops nothing and leaves the
\* registry as it was, whatever the registry holds.
C9_ReconcileSameIsIdle ==
    [][(lastOp'[1] = "update_sounds" /\ lastOp'[4])
         => /\ StartsAndStops(cmds') = {}
            /\ oscillators' = oscillators
            /\ envelopes' = envelopes]_vars

\* C9 witness: update_sounds(G, G) ran to its end on a grid with a live cell
\* that has no voice and a dead cell that has one.
C9_Witness ==
    /\ lastOp[1] = "update_sounds" /\ lastOp[4]
    /\ err = "none"
    /\ Alive(grid) \ DOMAIN oscillators # {}
    /\ DOMAIN oscillators \ Alive(grid) # {}

\* C10. play_sound for a key that is in the registry does nothing: no
\* command (no oscillator is created), the oscillator and the envelope of
\* the key stay, the registry is unchanged.
C10_PlayRegisteredIsNoOp ==
    [][\A row \in Range(0, MaxSize), col \in Range(0, MaxSize) :
         (ApiPlaySound(row, col) /\ <<row, col>> \in DOMAIN oscillators)
           => /\ cmds' = <<>>
              /\ oscillators' = oscillators
              /\ envelopes' = envelopes]_vars

\* C10 witness: play_sound returned without a command (its key was
\* registered) while two voices sound.
C10_Witness ==
    /\ lastOp = <<"play_sound">>
    /\ cmds = <<>>
    /\ Cardinality(DOMAIN oscillators) >= 2

\* C11. stop_sound for a key that is not in the registry does nothing: no
\* command, no exception, the registry and the envelope map unchanged.
C11_StopMissingIsNoOp ==
    [][\A row \in Range(0, MaxSize), col \in Range(0, MaxSize) :
         (ApiStopSound(row, col) /\ <<row, col>> \notin DOMAIN oscillators)
           => /\ cmds' = <<>>
              /\ err' = "none"
              /\ oscillators' = oscillators
              /\ envelopes' = envelopes]_vars

\* C11 witness: stop_sound returned without a command (its key was not
\* registered) while another voice sounds.
C11_Witness ==
    /\ lastOp = <<"stop_sound">>
    /\ cmds = <<>>
    /\ err = "none"
    /\ oscillators # <<>>

\* C12. resize_grid(new_rows, new_cols) gives an array of exactly the size
\* asked for (and rows, cols equal to it); a cell whose row and column are
\* below the smaller of the old and the new size keeps its value, every
\* other cell is dead.  previous_grid is the array before the call.
C12_ResizePreservesOverlap ==
    lastOp[1] = "resize_grid" =>
        LET min_rows == Min(NRows(previous_grid), lastOp[2])
            min_cols == Min(NCols(previous_grid), lastOp[3])
        IN  /\ rows = lastOp[2]
            /\ cols = lastOp[3]
            /\ DOMAIN grid = Range(0, lastOp[2])
            /\ \A i \in DOMAIN grid :
                /\ DOMAIN grid[i] = Range(0, lastOp[3])
                /\ \A j \in DOMAIN grid[i] :
                     grid[i][j] = IF i < min_rows /\ j < min_cols
                                  THEN previous_grid[i][j] ELSE FALSE

\* C12 witness: a resize that adds a row and takes a column away, as (10, 10)
\* to (20, 5) does, which kept a live cell and discarded another.
C12_Witness ==
    /\ lastOp[1] = "resize_grid"
    /\ NRows(previous_grid) < rows
    /\ NCols(previous_grid) > cols
    /\ Alive(grid) # {}
    /\ \E p \in Alive(previous_grid) : p[2] >= cols

\* C13. An all-dead grid stepped by update_grid under any rule lists,
\* lists that contain 0 included, is all-dead after the step.
C13_EmptyStaysEmpty ==
    (lastOp = <<"update_grid">> /\ Alive(previous_grid) = {})
        => Alive(grid) = {}

\* the live cells of g are a blinker: three cells in a row or in a column
\* around a centre that has all its eight neighbours inside the r x c grid
IsBlinker(g, r, c) ==
    \E i \in Range(1, r - 1), j \in Range(1, c - 1) :
        \/ Alive(g) = {<<i, j - 1>>, <<i, j>>, <<i, j + 1>>}
        \/ Alive(g) = {<<i - 1, j>>, <<i, j>>, <<i + 1, j>>}

\* C14. Under B3/S23 a blinker differs from itself after one update_grid and
\* is back after the second: when a step that started from a blinker
\* (previous_grid) is followed by another step, the array after that one is
\* the blinker again, and the array between the two is not.
C14_BlinkerHasPeriodTwo ==
    [][(/\ lastOp = <<"update_grid">>
        /\ rules = Conway
        /\ IsBlinker(previous_grid, rows, cols)
        /\ lastOp' = <<"update_grid">>)
         => (grid # previous_grid /\ grid' = previous_grid)]_vars

\* C14 witness: a step has turned a blinker by a quarter (as the first of
\* the two steps does, and the second).
C14_Witness ==
    /\ lastOp = <<"update_grid">>
    /\ rules = Conway
    /\ IsBlinker(grid, rows, cols)
    /\ IsBlinker(previous_grid, rows, cols)
    /\ grid # previous_grid

C16_AmplitudeKeepsFades ==
    [][lastOp'[1] = "set_amplitude"
         => /\ DOMAIN oscillators' = DOMAIN oscillators
            /\ \A key \in DOMAIN oscillators :
                 /\ oscillators'[key].mul = amplitude'
                 /\ oscillators[key].by_env => oscillators'[key].by_env]_vars

\* C17. With smooth transitions enabled, every voice that a reconcile stops
\* is first faded out (its envelope is stopped) and then stopped, and is no
\* longer in the registry, whether or not smooth transitions were enabled
\* when the voice was started.
C17_SmoothStopFadesOut ==
    (lastOp = <<"next_generation">> /\ smooth_transitions)
        => \A i \in Positions(cmds, "osc.stop") :
             /\ \E j \in PositionsFor(cmds, "env.stop", cmds[i][2]) : j < i
             /\ cmds[i][2] \notin DOMAIN oscillators

\* a rule list without its values outside 0..8 and without repetitions
RECURSIVE WithoutRepetitions(_)
WithoutRepetitions(list) ==
    IF list = <<>> THEN <<>>
    ELSE LET rest == WithoutRepetitions(Tail(list))
         IN  IF InList(Head(list), rest) THEN rest ELSE <<Head(list)>> \o rest
Restricted(rl) ==
    [birth |-> WithoutRepetitions(SelectSeq(rl.birth, LAMBDA x : x \in 0..8)),
     survival |-> WithoutRepetitions(SelectSeq(rl.survival, LAMBDA x : x \in 0..8))]

\* C18. Values above 8 in the rule lists never fire and repetitions change
\* nothing: the array after update_grid is the one the step gives under the
\* same lists restricted to 0..8, each value once.
C18_LargeValuesNeverFire ==
    lastOp = <<"update_grid">>
        => grid = update_grid(previous_grid, rows, cols, Restricted(rules))

\* C18 witness: a step under B3,9/S2,3,3,12 (accepted by set_rules) in which
\* a cell was born and another died.
C18_Witness ==
    /\ lastOp = <<"update_grid">>
    /\ rules = [birth |-> <<3, 9>>, survival |-> <<2, 3, 3, 12>>]
    /\ Restricted(rules) = Conway
    /\ Alive(grid) \ Alive(previous_grid) # {}
    /\ Alive(previous_grid) \ Alive(grid) # {}

\* C19. mousePressEvent on the cell of column x and row y: inside the grid it
\* flips that cell and no other; outside (x or y negative, or x >= cols, or
\* y >= rows) it changes nothing; in both cases rows, cols and rules stay
\* and nothing is raised.
C19_ToggleFlipsOneCell ==
    [][lastOp'[1] = "mousePressEvent"
         => LET x == lastOp'[2]
                y == lastOp'[3]
                inside == 0 <= x /\ x < cols /\ 0 <= y /\ y < rows
            IN  /\ rows' = rows /\ cols' = cols /\ rules' = rules
                /\ err' = "none"
                /\ DOMAIN grid' = DOMAIN grid
                /\ \A i \in DOMAIN grid :
                     /\ DOMAIN grid'[i] = DOMAIN grid[i]
                     /\ \A j \in DOMAIN grid[i] :
                          grid'[i][j] = IF inside /\ i = y /\ j = x
                                        THEN ~grid[i][j] ELSE grid[i][j]]_vars

\* C19 witness: a click left of the grid (x = -1) on a row of the grid that
\* has a live cell; nothing changed.
C19_Witness ==
    /\ lastOp[1] = "mousePressEvent"
    /\ lastOp[2] = -1
    /\ lastOp[3] \in Range(0, rows)
    /\ grid = previous_grid
    /\ \E p \in Alive(grid) : p[1] = lastOp[3]

\* C20. calculate_frequency maps every cell of the grid to a frequency
\* inside the range: every registered voice (each has the frequency
\* calculate_frequency gave for its cell under the current range) has
\* fmin <= freq <= fmax.
C20_FrequencyWithinRange ==
    \A key \in DOMAIN oscillators :
        /\ FracLeq(<<frequency_range[1], 1>>, oscillators[key].freq)
        /\ FracLeq(oscillators[key].freq, <<frequency_range[2], 1>>)

\* C21. The methods of Grid (update_grid, mousePressEvent, set_rules,
\* resize_grid, clear_grid) leave the registry, the envelope map, the sound
\* parameters and the server as they are and issue no audio command.
C21_GridCallsLeaveSoundAlone ==
    [][lastOp' = <<"grid">>
         => /\ oscillators' = oscillators
            /\ envelopes' = envelopes
            /\ frequency_range' = frequency_range
            /\ amplitude' = amplitude
            /\ waveform' = waveform
            /\ smooth_transitions' = smooth_transitions
            /\ server' = server
            /\ cmds' = <<>>]_vars

\* C21 witness: a method of Grid was called on a grid with live cells, under
\* rules that set_rules gave, while two voices are registered.
C21_Witness ==
    /\ lastOp = <<"grid">>
    /\ rules # Conway
    /\ Alive(grid) # {}
    /\ Cardinality(DOMAIN oscillators) >= 2

C24_LeavesOnlyWhenStopped ==
    [][\A key \in (DOMAIN oscillators) \ (DOMAIN oscillators') :
          PositionsFor(cmds', "osc.stop", key) # {}]_vars

\* C25. After every operation of a SoundManager the keys of its envelope map
\* are keys of its registry, and a key has an envelope exactly when smooth
\* transitions were enabled when its voice was started: a voice started by
\* the operation has one exactly when the flag is set, any other voice of
\* the registry was there before and has one exactly when it had one.  For
\* the manager that stop_simulation drops, the keys are those that its last
\* operation, shutdown(), left.
C25_EnvelopesMatchVoices ==
    [][/\ DOMAIN envelopes' \subseteq DOMAIN oscillators'
       /\ \A key \in DOMAIN oscillators' :
            IF PositionsFor(cmds', "osc.out", key) # {}
            THEN (key \in DOMAIN envelopes') = smooth_transitions'
            ELSE /\ key \in DOMAIN oscillators
                 /\ (key \in DOMAIN envelopes') = (key \in DOMAIN envelopes)
       /\ lastOp'[1] = "stop_simulation" => lastOp'[3] \subseteq lastOp'[2]]_vars

=============================================================================
